---------------------------- MODULE Spec2Model ----------------------------
(***************************************************************************)
(* Resumify: the token / plan accounting of src/models.py and the request  *)
(* handlers of src/app.py that change the persisted store (User, Resume,   *)
(* Purchase).                                                              *)
(*                                                                         *)
(* One step of the model is one HTTP request handled from its first line   *)
(* to its response (requests are handled one at a time), or the clock      *)
(* advancing between two requests.  Handlers that only read the store      *)
(* (index, start, my_resumes, view_resume, download_resume, pricing,       *)
(* regenerate_bio, login, logout) leave every variable alone and are not   *)
(* actions of the model.                                                   *)
(*                                                                         *)
(* Text is a sequence of pieces (a piece is a string; the piece " " is     *)
(* white space), so that strip() and the f-string of generate_bio are      *)
(* computed and not assumed.  A Resume row keeps id, user_id, bio and      *)
(* template; the columns that are only stored and rendered (name, phone,   *)
(* skills, the timestamps of Resume and Purchase, ...) are left out.       *)
(*                                                                         *)
(* Four specifications share the handlers:                                 *)
(*   Spec          one account and every handler, generate being sent      *)
(*                 complete forms;                                         *)
(*   GenerateSpec  one account, generate with every kind of form, upload   *)
(*                 and AI outcome, and upgrade;                            *)
(*   StoreSpec     two accounts and the handlers of the Resume store;      *)
(*   ApiSpec       one account, the handlers that change its tokens, and   *)
(*                 the methods of User called directly.                    *)
(***************************************************************************)
EXTENDS Integers, Sequences, FiniteSets, TLC

VARIABLES
    users,      \* table user: a sequence, users[i] is the row with id i
    resumes,    \* table resume: a set of rows
    purchases,  \* table purchase: the ledger, in insertion order
    now,        \* datetime.utcnow(), in ticks
    created,    \* number of Resume rows inserted so far
    calls,      \* number of direct calls of User's methods so far
    resp        \* the request answered by the latest step and its response

vars == <<users, resumes, purchases, now, created, calls, resp>>

---------------------------------------------------------------------------
(* Bounds of the model *)

MaxTime == 3        \* the clock stops here
TicksPerDay == 2    \* clock ticks in one day
MaxCreated == 2     \* Resume rows inserted in one behaviour
MaxPurchases == 2   \* Purchase rows inserted in one behaviour
MaxCalls == 3       \* direct calls of User's methods in one behaviour

(* Constants of the program *)

RegisterTokens == 3
FreeDailyTokens == 3
ProDailyTokens == 15
ProPackTokens == 15
ProPackAmount == 199
UltimateTokens == 9999
UltimatePackAmount == 499

\* a price_map that also sells a pack of 3
price_map_with_pack_of_3 ==
    [c \in {1, 3, 5} |-> IF c = 1 THEN 50 ELSE IF c = 3 THEN 75 ELSE 100]

\* price_map of buy_token
price_map == [c \in {1, 5} |-> IF c = 1 THEN 50 ELSE 100]

\* config.FREE_TEMPLATES (config.py is not among the sources)
FREE_TEMPLATES == {"classic"}

---------------------------------------------------------------------------
(* Inputs of the requests *)

NoField == "<absent>"                       \* a form field the request lacks
Emails == {"ann@x.org", "bob@x.org"}
FirstEmail == "ann@x.org"
Names == {"Ann", "Bob"}
NameInputs == Names \cup {NoField}
Methods == {"GET", "POST"}
Templates == {"classic", "elegant"}
TemplateInputs == Templates \cup {NoField}
UserBio == <<" ", "my bio", " ">>            \* a bio typed by the user
BlankBios == {<<>>, <<" ">>}                 \* bio fields that strip to nothing
EditBioInputs == {UserBio}
UpgradeInputs == {"pro", "ultimate", "free", "gold"}
CountInputs == {0, 1, 3, 5}
ResumeIds == 1..MaxCreated
FormProfession == "engineer"
FormSkills == "python, sql"
UploadOutcomes == {"ok", "error"}

\* What the completion service can do with one call.
AiOutcomes ==
    { [kind |-> "ok",      content |-> <<" ", "ai bio">>],
      [kind |-> "ok",      content |-> <<" ">>],
      [kind |-> "status",  content |-> <<>>],
      [kind |-> "timeout", content |-> <<>>] }
AiDown == [kind |-> "timeout", content |-> <<>>]

---------------------------------------------------------------------------
(* Text helpers *)

RECURSIVE lstrip(_)
lstrip(s) == IF s # <<>> /\ Head(s) = " " THEN lstrip(Tail(s)) ELSE s

RECURSIVE rstrip(_)
rstrip(s) ==
    IF s # <<>> /\ s[Len(s)] = " " THEN rstrip(SubSeq(s, 1, Len(s) - 1)) ELSE s

strip(s) == lstrip(rstrip(s))

\* form.get(field, default)
FormGet(v, default) == IF v = NoField THEN default ELSE v

Contains(text, piece) == \E i \in DOMAIN text : text[i] = piece

---------------------------------------------------------------------------
(* models.py: User *)

is_free_user(u) == u.plan = "free"

\* is_pro_user that recognises no plan
is_pro_user_never(u) == FALSE

is_pro_user(u) == u.plan = "pro"

is_ultimate_user(u) == u.plan = "ultimate"

\* has_tokens that looks at the balance only
has_tokens_by_balance(u) == u.tokens > 0

has_tokens(u) == u.tokens > 0 \/ is_ultimate_user(u)

Max(a, b) == IF a >= b THEN a ELSE b

\* deduct_token that takes nothing
deduct_token_free_of_charge(u) == u

\* deduct_token without the floor at 0
deduct_token_unfloored(u) ==
    IF ~is_ultimate_user(u)
    THEN [u EXCEPT !.tokens = u.tokens - 1]
    ELSE u

deduct_token(u) ==
    IF ~is_ultimate_user(u)
    THEN [u EXCEPT !.tokens = Max(0, u.tokens - 1)]
    ELSE u

\* timedelta.days of (t - since): whole days, rounded down
Days(t, since) == (t - since) \div TicksPerDay

\* reset_tokens_if_needed that forgets to stamp last_token_reset
reset_tokens_unstamped(u, t) ==
    IF Days(t, u.last_token_reset) >= 1
    THEN [u EXCEPT
            !.tokens = IF is_free_user(u) THEN FreeDailyTokens
                       ELSE IF is_pro_user(u) THEN ProDailyTokens
                       ELSE u.tokens]
    ELSE u

\* reset_tokens_if_needed that does not wait for a day to pass
reset_tokens_every_call(u, t) ==
    [u EXCEPT
        !.tokens = IF is_free_user(u) THEN FreeDailyTokens
                   ELSE IF is_pro_user(u) THEN ProDailyTokens
                   ELSE u.tokens,
        !.last_token_reset = t]

\* last_token_reset is never null: the column defaults to utcnow() on insert
reset_tokens_if_needed(u, t) ==
    IF Days(t, u.last_token_reset) >= 1
    THEN [u EXCEPT
            !.tokens = IF is_free_user(u) THEN FreeDailyTokens
                       ELSE IF is_pro_user(u) THEN ProDailyTokens
                       ELSE u.tokens,
            !.last_token_reset = t]
    ELSE u

---------------------------------------------------------------------------
(* app.py: the AI utility *)

\* None is the empty text: both are falsy where the result is used
get_ai_response(ai) ==
    IF ai.kind = "ok" THEN strip(ai.content) ELSE <<>>

\* generate_bio without the fallback sentence
generate_bio_no_fallback(name, profession, skills, ai) == get_ai_response(ai)

generate_bio(name, profession, skills, ai) ==
    IF get_ai_response(ai) # <<>>
    THEN get_ai_response(ai)
    ELSE <<"I'm ", name, ", a ", profession, " skilled in ", skills,
           ", blending creativity and logic to craft meaningful work.">>

---------------------------------------------------------------------------
(* The store and the responses *)

UserIds == DOMAIN users

ResumeWithId(rid) == {r \in resumes : r.id = rid}

\* INTEGER PRIMARY KEY of SQLite: one more than the largest id in the table
NextResumeId ==
    IF resumes = {} THEN 1
    ELSE 1 + CHOOSE m \in {r.id : r \in resumes} :
                 \A r \in resumes : r.id <= m

\* resp: the request (op, the user who sent it, the template asked for when
\* op is generate) and the signal it was answered with.
NoResp == [op |-> "none", user |-> 0, template |-> NoField, result |-> "none"]

Answer(op, c, result) == [NoResp EXCEPT !.op = op, !.user = c, !.result = result]

Init ==
    /\ users = <<>>
    /\ resumes = {}
    /\ purchases = <<>>
    /\ now = 0
    /\ created = 0
    /\ calls = 0
    /\ resp = NoResp

---------------------------------------------------------------------------
(* app.py: the handlers *)

register(email) ==
    IF \E i \in UserIds : users[i].email = email
    THEN /\ resp' = Answer("register", 0, "EmailTaken")
         /\ UNCHANGED <<users, resumes, purchases, now, created, calls>>
    ELSE /\ users' = Append(users,
                [email |-> email, plan |-> "free", tokens |-> RegisterTokens,
                 last_token_reset |-> now, last_generated |-> <<>>])
         /\ resp' = Answer("register", Len(users) + 1, "ok")
         /\ UNCHANGED <<resumes, purchases, now, created, calls>>

\* POST /generate.  template_in, bio_in, name_in: the form's fields (the form
\* always carries profession and skills); upload: "ok" (no picture, or one
\* that was saved) or "error" (pic.save raises); ai: what the completion
\* service does if it is called.
generate(c, template_in, bio_in, name_in, upload, ai) ==
    LET u1 == reset_tokens_if_needed(users[c], now)      \* committed at once
        template == FormGet(template_in, "classic")
        is_premium == template \notin FREE_TEMPLATES
        user_bio == strip(bio_in)
        ai_called == user_bio = <<>>
        bio == IF ai_called
               THEN generate_bio(name_in, FormProfession, FormSkills, ai)
               ELSE user_bio
        resume == [id |-> NextResumeId, user_id |-> c, bio |-> bio,
                   template |-> template]
        u2 == [deduct_token(u1) EXCEPT !.last_generated = <<now>>]
        answer(result) == [Answer("generate", c, result) EXCEPT
                              !.template = template]
        rejected(result) ==
            /\ users' = [users EXCEPT ![c] = u1]
            /\ resp' = answer(result)
            /\ UNCHANGED <<resumes, purchases, now, created, calls>>
    IN  IF is_premium /\ ~(is_pro_user(u1) \/ is_ultimate_user(u1))
        THEN rejected("TemplateNotAllowed")
        ELSE IF ~has_tokens(u1)
        THEN rejected("OutOfTokens")
        ELSE IF upload = "error"
        THEN rejected("ServerError")
        ELSE IF name_in = NoField                 \* form['name']
        THEN rejected("BadRequest")
        ELSE /\ created < MaxCreated
             /\ resumes' = resumes \cup {resume}
             /\ created' = created + 1
             /\ users' = [users EXCEPT ![c] = u2]
             /\ resp' = answer("ok")
             /\ UNCHANGED <<purchases, now, calls>>

\* delete_resume without the check of the owner
delete_resume_of_anyone(c, resume_id) ==
    IF ResumeWithId(resume_id) = {}
    THEN /\ resp' = Answer("delete_resume", c, "NotFound")
         /\ UNCHANGED <<users, resumes, purchases, now, created, calls>>
    ELSE /\ resumes' = resumes \ ResumeWithId(resume_id)
         /\ resp' = Answer("delete_resume", c, "ok")
         /\ UNCHANGED <<users, purchases, now, created, calls>>

\* POST /delete_resume/<resume_id>
delete_resume(c, resume_id) ==
    LET answer(result) == Answer("delete_resume", c, result)
    IN  IF ResumeWithId(resume_id) = {}
        THEN /\ resp' = answer("NotFound")
             /\ UNCHANGED <<users, resumes, purchases, now, created, calls>>
        ELSE LET resume == CHOOSE r \in resumes : r.id = resume_id
             IN  IF resume.user_id # c
                 THEN /\ resp' = answer("Unauthorized")
                      /\ UNCHANGED <<users, resumes, purchases, now, created, calls>>
                 ELSE /\ resumes' = resumes \ {resume}
                      /\ resp' = answer("ok")
                      /\ UNCHANGED <<users, purchases, now, created, calls>>

\* GET or POST /resume/<resume_id>/edit, with or without ?duplicate=1
edit_resume(c, resume_id, method, duplicate, name_in, bio_in, template_in) ==
    LET mine == {r \in resumes : r.id = resume_id /\ r.user_id = c}
        answer(result) == Answer("edit_resume", c, result)
    IN  IF mine = {}
        THEN /\ resp' = answer("NotFound")
             /\ UNCHANGED <<users, resumes, purchases, now, created, calls>>
        ELSE LET original == CHOOSE r \in mine : TRUE
             IN  IF duplicate
                 THEN /\ created < MaxCreated
                      /\ resumes' = resumes \cup
                            {[original EXCEPT !.id = NextResumeId]}
                      /\ created' = created + 1
                      /\ resp' = answer("duplicated")
                      /\ UNCHANGED <<users, purchases, now, calls>>
                 ELSE IF method = "POST"
                 THEN IF name_in = NoField         \* form['name']
                      THEN /\ resp' = answer("BadRequest")
                           /\ UNCHANGED <<users, resumes, purchases, now,
                                          created, calls>>
                      ELSE /\ resumes' = (resumes \ {original}) \cup
                                 {[original EXCEPT
                                     !.bio = bio_in,
                                     !.template =
                                         FormGet(template_in, "classic")]}
                           /\ resp' = answer("updated")
                           /\ UNCHANGED <<users, purchases, now, created, calls>>
                 ELSE /\ resp' = answer("form")
                      /\ UNCHANGED <<users, resumes, purchases, now, created, calls>>

\* GET /buy_token/<count>
buy_token(c, count) ==
    LET amount == IF count \in DOMAIN price_map THEN price_map[count] ELSE 0
        answer(result) == Answer("buy_token", c, result)
    IN  IF amount = 0
        THEN /\ resp' = answer("InvalidTokenPack")
             /\ UNCHANGED <<users, resumes, purchases, now, created, calls>>
        ELSE /\ Len(purchases) < MaxPurchases
             /\ users' = [users EXCEPT ![c].tokens = @ + count]
             /\ purchases' = Append(purchases,
                    [user_id |-> c, amount |-> amount,
                     description |-> ToString(count) \o " Token Pack"])
             /\ resp' = answer("ok")
             /\ UNCHANGED <<resumes, now, created, calls>>

\* upgrade whose Pro Pack sets the balance instead of adding to it
upgrade_setting_balance(c, plan) ==
    LET answer(result) == Answer("upgrade", c, result)
        pack == IF plan = "pro"
                THEN [tokens |-> ProPackTokens, amount |-> ProPackAmount,
                      description |-> "Pro Pack"]
                ELSE [tokens |-> UltimateTokens, amount |-> UltimatePackAmount,
                      description |-> "Ultimate Pack"]
    IN  IF plan \in {"pro", "ultimate"}
        THEN /\ Len(purchases) < MaxPurchases
             /\ users' = [users EXCEPT ![c].tokens = pack.tokens,
                                       ![c].plan = plan]
             /\ purchases' = Append(purchases,
                    [user_id |-> c, amount |-> pack.amount,
                     description |-> pack.description])
             /\ resp' = answer("ok")
             /\ UNCHANGED <<resumes, now, created, calls>>
        ELSE /\ resp' = answer("InvalidPlan")
             /\ UNCHANGED <<users, resumes, purchases, now, created, calls>>

\* GET /upgrade/<plan>
upgrade(c, plan) ==
    LET answer(result) == Answer("upgrade", c, result)
    IN  IF plan = "pro"
        THEN /\ Len(purchases) < MaxPurchases
             /\ users' = [users EXCEPT ![c].tokens = @ + ProPackTokens,
                                       ![c].plan = "pro"]
             /\ purchases' = Append(purchases,
                    [user_id |-> c, amount |-> ProPackAmount,
                     description |-> "Pro Pack"])
             /\ resp' = answer("ok")
             /\ UNCHANGED <<resumes, now, created, calls>>
        ELSE IF plan = "ultimate"
        THEN /\ Len(purchases) < MaxPurchases
             /\ users' = [users EXCEPT ![c].tokens = UltimateTokens,
                                       ![c].plan = "ultimate"]
             /\ purchases' = Append(purchases,
                    [user_id |-> c, amount |-> UltimatePackAmount,
                     description |-> "Ultimate Pack"])
             /\ resp' = answer("ok")
             /\ UNCHANGED <<resumes, now, created, calls>>
        ELSE /\ resp' = answer("InvalidPlan")
             /\ UNCHANGED <<users, resumes, purchases, now, created, calls>>

\* user.deduct_token() called on the persisted account, and committed
call_deduct_token(c) ==
    /\ calls < MaxCalls
    /\ calls' = calls + 1
    /\ users' = [users EXCEPT ![c] = deduct_token(users[c])]
    /\ resp' = Answer("deduct_token", c,
                    IF deduct_token(users[c]) = users[c] THEN "unchanged"
                    ELSE "changed")
    /\ UNCHANGED <<resumes, purchases, now, created>>

\* user.reset_tokens_if_needed() called on the persisted account, and committed
call_reset_tokens_if_needed(c) ==
    /\ calls < MaxCalls
    /\ calls' = calls + 1
    /\ users' = [users EXCEPT ![c] = reset_tokens_if_needed(users[c], now)]
    /\ resp' = Answer("reset_tokens_if_needed", c,
                    IF reset_tokens_if_needed(users[c], now) = users[c]
                    THEN "unchanged" ELSE "changed")
    /\ UNCHANGED <<resumes, purchases, now, created>>

\* Time passes between two requests.
Tick ==
    /\ now < MaxTime
    /\ now' = now + 1
    /\ resp' = NoResp
    /\ UNCHANGED <<users, resumes, purchases, created, calls>>

\* The requests.  GenerateAnyForm sends every kind of form (an input that the
\* handler does not read on the path it takes is not varied); Generate sends
\* complete forms that carry a typed bio.
GenerateAnyForm ==
    \E c \in UserIds, template_in \in TemplateInputs :
        \/ generate(c, template_in, <<>>, NoField, "error", AiDown)
        \/ generate(c, template_in, <<>>, NoField, "ok", AiDown)
        \/ \E name_in \in Names :
              \/ generate(c, template_in, UserBio, name_in, "ok", AiDown)
              \/ \E bio_in \in BlankBios, ai \in AiOutcomes :
                    generate(c, template_in, bio_in, name_in, "ok", ai)

Generate ==
    \E c \in UserIds, template_in \in TemplateInputs, name_in \in Names :
        generate(c, template_in, UserBio, name_in, "ok", AiDown)

DeleteResume ==
    \E c \in UserIds, resume_id \in ResumeIds : delete_resume(c, resume_id)

EditResume ==
    \E c \in UserIds, resume_id \in ResumeIds :
        \/ \E method \in Methods :
              edit_resume(c, resume_id, method, TRUE, NoField, <<>>, NoField)
        \/ edit_resume(c, resume_id, "GET", FALSE, NoField, <<>>, NoField)
        \/ \E name_in \in NameInputs, bio_in \in EditBioInputs,
               template_in \in TemplateInputs :
              edit_resume(c, resume_id, "POST", FALSE, name_in, bio_in,
                          template_in)

BuyToken == \E c \in UserIds, count \in CountInputs : buy_token(c, count)

Upgrade == \E c \in UserIds, plan \in UpgradeInputs : upgrade(c, plan)

Register == \E email \in Emails : register(email)

RegisterFirst == register(FirstEmail)

CallDeductToken == \E c \in UserIds : call_deduct_token(c)

CallResetTokensIfNeeded == \E c \in UserIds : call_reset_tokens_if_needed(c)

\* One account, every handler.
Next ==
    \/ RegisterFirst
    \/ Generate
    \/ DeleteResume
    \/ EditResume
    \/ BuyToken
    \/ Upgrade
    \/ Tick

Spec == Init /\ [][Next]_vars

\* One account, generate with every kind of form, upload and AI outcome.
GenerateNext ==
    \/ RegisterFirst
    \/ GenerateAnyForm
    \/ Upgrade
    \/ Tick

GenerateSpec == Init /\ [][GenerateNext]_vars

\* Two accounts, the handlers of the Resume store.
StoreNext ==
    \/ Register
    \/ Generate
    \/ DeleteResume
    \/ EditResume
    \/ Tick

StoreSpec == Init /\ [][StoreNext]_vars

\* One account, the handlers that change its tokens, the methods of User.
ApiNext ==
    \/ RegisterFirst
    \/ Generate
    \/ BuyToken
    \/ Upgrade
    \/ CallDeductToken
    \/ CallResetTokensIfNeeded
    \/ Tick

ApiSpec == Init /\ [][ApiNext]_vars

---------------------------------------------------------------------------
(* The claims *)

\* The caller's account after step 1 of generate.
AfterReset(c) == reset_tokens_if_needed(users[c], now)

\* The daily allotment of an account on plan p that holds t tokens.
Allotment(p, t) == IF p = "free" THEN 3 ELSE IF p = "pro" THEN 15 ELSE t

\* The latest step answered request op of user c.
Answered(op, c) == resp'.op = op /\ resp'.user = c

\* C1: from registration on, through generate, reset_tokens_if_needed,
\* deduct_token, buy_token and upgrade, tokens is an integer >= 0; and
\* deduct_token called with tokens = 0 leaves tokens at 0.
C1_TokensNeverNegative ==
    [][ /\ \A c \in DOMAIN users' : users'[c].tokens \in Nat
        /\ \A c \in UserIds :
              (Answered("deduct_token", c) /\ users[c].tokens = 0)
                  => users'[c].tokens = 0 ]_vars

\* deduct_token was called on a free or pro account that held 0 tokens.
C1_Witness ==
    \E c \in UserIds :
        /\ resp = Answer("deduct_token", c, "unchanged")
        /\ users[c].plan # "ultimate"
        /\ users[c].tokens = 0

\* C2: reset_tokens_if_needed called when now - last_token_reset >= 1 day sets
\* tokens to the plan's allotment (free 3, pro 15, ultimate unchanged) and
\* last_token_reset to now; called less than a day after last_token_reset it
\* changes nothing; and nothing but such a reset (called directly, or as
\* step 1 of generate) moves last_token_reset, whatever is consumed or bought.
C2_ResetOncePerDay ==
    [][ \A c \in UserIds :
          /\ Answered("reset_tokens_if_needed", c) =>
                IF now - users[c].last_token_reset >= TicksPerDay
                THEN /\ users'[c].tokens =
                            Allotment(users[c].plan, users[c].tokens)
                     /\ users'[c].last_token_reset = now
                     /\ users'[c].plan = users[c].plan
                ELSE users'[c] = users[c]
          /\ users'[c].last_token_reset # users[c].last_token_reset =>
                /\ resp'.op \in {"reset_tokens_if_needed", "generate"}
                /\ resp'.user = c
                /\ now - users[c].last_token_reset >= TicksPerDay
                /\ users'[c].last_token_reset = now ]_vars

\* Two 5-token packs were bought, a reset brought the balance down to 3, a
\* token was consumed, and a second call within the day changed nothing.
C2_Witness ==
    \E c \in UserIds :
        /\ resp = Answer("reset_tokens_if_needed", c, "unchanged")
        /\ users[c].plan = "free"
        /\ users[c].tokens = 2
        /\ Len(purchases) = 2
        /\ \A i \in DOMAIN purchases : purchases[i].amount = 100

\* The rows a step inserts: those of resumes' whose id no row of resumes has.
NewRows == {r \in resumes' : \A q \in resumes : q.id # r.id}

\* The sentence generate_bio falls back to.
FallbackSentence(name) ==
    <<"I'm ", name, ", a ", FormProfession, " skilled in ", FormSkills,
      ", blending creativity and logic to craft meaningful work.">>

\* What C3 says a generate request of user c ends with.
GenerateCommitted(c) ==
    /\ users'[c].tokens =
            IF users[c].plan = "ultimate" THEN users[c].tokens
            ELSE AfterReset(c).tokens - 1
    /\ AfterReset(c).plan = "ultimate" \/ AfterReset(c).tokens > 0
    /\ Cardinality(NewRows) = 1
    /\ \A r \in NewRows : r.user_id = c
    /\ resumes \subseteq resumes'
    /\ users'[c].last_generated = <<now>>

\* When the AI call fails or times out, the stored bio is the fallback
\* sentence, which contains the name of the form.
FallbackOnAiFailure(c) ==
    resp'.result = "ok" =>
        \A bio_in \in BlankBios, name_in \in Names, ai \in AiOutcomes :
            (/\ ai.kind # "ok"
             /\ generate(c, resp'.template, bio_in, name_in, "ok", ai))
                => \A r \in NewRows : /\ r.bio = FallbackSentence(name_in)
                                      /\ Contains(r.bio, name_in)

\* C3 as claimed: every generate request that passes the template check and
\* the token check ends with one token fewer (none fewer on the ultimate
\* plan), one new Resume of the caller and last_generated stamped, whatever
\* the AI call does.
C3_EveryPassedRequestCommits ==
    [][ \A c \in UserIds :
          Answered("generate", c) =>
             /\ resp'.result \notin {"TemplateNotAllowed", "OutOfTokens"}
                    => GenerateCommitted(c)
             /\ FallbackOnAiFailure(c) ]_vars

\* C3, amended: a generate request that passes both checks and is not aborted
\* before its commit (no name field in the form, or the upload cannot be
\* saved) ends with one token fewer (none fewer on the ultimate plan), one
\* new Resume of the caller and last_generated stamped, whatever the AI call
\* does, the bio being the fallback sentence with the form's name when the
\* call fails; an aborted request leaves the account as the reset step left
\* it and inserts nothing.
C3_CommittedGenerate ==
    [][ \A c \in UserIds :
          Answered("generate", c) =>
             /\ resp'.result = "ok" => GenerateCommitted(c)
             /\ resp'.result \in {"ServerError", "BadRequest"} =>
                    /\ resumes' = resumes
                    /\ users'[c] = AfterReset(c)
                    /\ has_tokens(AfterReset(c))
             /\ FallbackOnAiFailure(c) ]_vars

\* A free account generated its first resume while the AI call failed.
C3_Witness ==
    \E c \in UserIds :
        /\ resp = [Answer("generate", c, "ok") EXCEPT !.template = "classic"]
        /\ users[c].plan = "free"
        /\ users[c].tokens = 2
        /\ users[c].last_generated = <<now>>
        /\ \E r \in resumes : /\ resumes = {r}
                              /\ r.user_id = c
                              /\ r.bio = FallbackSentence("Ann")

\* C4: generate answers TemplateNotAllowed exactly when the template asked
\* for is not a free one and the plan is free: on pro and ultimate no template
\* is rejected, no plan is refused a free template, and the template check
\* comes before the token check (free, 0 tokens, premium template:
\* TemplateNotAllowed, not OutOfTokens).
C4_TemplateGate ==
    [][ \A c \in UserIds :
          Answered("generate", c) =>
             /\ resp'.result = "TemplateNotAllowed"
                    <=> (resp'.template \notin FREE_TEMPLATES
                            /\ users[c].plan = "free")
             /\ users[c].plan \in {"pro", "ultimate"}
                    => resp'.result # "TemplateNotAllowed"
             /\ resp'.template \in FREE_TEMPLATES
                    => resp'.result # "TemplateNotAllowed"
             /\ (/\ users[c].plan = "free"
                 /\ AfterReset(c).tokens = 0
                 /\ resp'.template \notin FREE_TEMPLATES)
                    => resp'.result = "TemplateNotAllowed" ]_vars

\* A free account with no token left asked for a premium template and was
\* refused for the template.
C4_Witness ==
    \E c \in UserIds :
        /\ resp = [Answer("generate", c, "TemplateNotAllowed")
                      EXCEPT !.template = "elegant"]
        /\ users[c].plan = "free"
        /\ users[c].tokens = 0

\* The balances has_tokens is asked about.
Balances == 0 .. RegisterTokens

\* C5 as claimed: on the ultimate plan has_tokens holds for every balance and
\* generate never answers OutOfTokens; on the other plans generate answers
\* OutOfTokens exactly when the balance after the reset step is 0.
C5_OutOfTokensIffEmpty ==
    [][ \A c \in UserIds :
          /\ users[c].plan = "ultimate" =>
                \A t \in Balances : has_tokens([users[c] EXCEPT !.tokens = t])
          /\ Answered("generate", c) =>
                IF users[c].plan = "ultimate"
                THEN resp'.result # "OutOfTokens"
                ELSE resp'.result = "OutOfTokens"
                        <=> AfterReset(c).tokens = 0 ]_vars

\* C5, amended: on the ultimate plan has_tokens holds for every balance and
\* generate never answers OutOfTokens; on the other plans generate answers
\* OutOfTokens exactly when the template check passed and the balance after
\* the reset step is 0.
C5_OutOfTokensAfterTemplateGate ==
    [][ \A c \in UserIds :
          /\ users[c].plan = "ultimate" =>
                \A t \in Balances : has_tokens([users[c] EXCEPT !.tokens = t])
          /\ Answered("generate", c) =>
                IF users[c].plan = "ultimate"
                THEN resp'.result # "OutOfTokens"
                ELSE resp'.result = "OutOfTokens"
                        <=> /\ AfterReset(c).tokens = 0
                            /\ ~(resp'.template \notin FREE_TEMPLATES
                                    /\ users[c].plan = "free") ]_vars

\* An account that is not ultimate and has no token left was refused for its
\* balance, and so was not reset by the request.
C5_Witness ==
    \E c \in UserIds :
        /\ resp = [Answer("generate", c, "OutOfTokens")
                      EXCEPT !.template = "classic"]
        /\ users[c].plan # "ultimate"
        /\ users[c].tokens = 0
        /\ now - users[c].last_token_reset < TicksPerDay

\* generate answered user c with one of its two rejections.
Rejected(c) ==
    /\ Answered("generate", c)
    /\ resp'.result \in {"TemplateNotAllowed", "OutOfTokens"}

\* C10 as claimed: a generate request rejected with TemplateNotAllowed or
\* OutOfTokens inserts no Resume, deducts no token, does not stamp
\* last_generated and leaves the persisted account as it was.
C10_RejectedChangesNothing ==
    [][ \A c \in UserIds :
          Rejected(c) => /\ resumes' = resumes
                         /\ users'[c] = users[c] ]_vars

\* C10, amended: a generate request rejected with TemplateNotAllowed or
\* OutOfTokens inserts no Resume, deducts no token and does not stamp
\* last_generated, but the reset of its first step stays committed: when a
\* day or more has passed since last_token_reset, the persisted account holds
\* its plan's allotment and last_token_reset = now; otherwise the account is
\* as it was.
C10_RejectedKeepsOnlyTheReset ==
    [][ \A c \in UserIds :
          Rejected(c) =>
             /\ resumes' = resumes
             /\ purchases' = purchases
             /\ users'[c].last_generated = users[c].last_generated
             /\ users'[c].plan = users[c].plan
             /\ users'[c].email = users[c].email
             /\ IF now - users[c].last_token_reset >= TicksPerDay
                THEN /\ users'[c].tokens =
                            Allotment(users[c].plan, users[c].tokens)
                     /\ users'[c].last_token_reset = now
                ELSE users'[c] = users[c] ]_vars

\* A free account that had used up its three tokens came back a day later,
\* asked for a premium template and was refused, and holds three tokens.
C10_Witness ==
    \E c \in UserIds :
        /\ resp = [Answer("generate", c, "TemplateNotAllowed")
                      EXCEPT !.template = "elegant"]
        /\ users[c].plan = "free"
        /\ users[c].tokens = FreeDailyTokens
        /\ users[c].last_token_reset = now
        /\ now >= TicksPerDay
        /\ calls = 3
        /\ purchases = <<>>
        /\ created = 0

\* The step appends one ledger entry, of user c and of the given amount.
OneEntryAppended(c, amount) ==
    /\ Len(purchases') = Len(purchases) + 1
    /\ SubSeq(purchases', 1, Len(purchases)) = purchases
    /\ purchases'[Len(purchases')].user_id = c
    /\ purchases'[Len(purchases')].amount = amount

\* C6: buy_token(count) with count in the table {1: 50, 5: 100} adds count
\* to the tokens, appends one Purchase of the account with the table's amount
\* and changes nothing else (plan, last_token_reset, resumes); any other
\* count is answered InvalidTokenPack and leaves tokens, plan and the ledger
\* as they were.
C6_BuyToken ==
    [][ \A c \in UserIds, count \in CountInputs :
          (Answered("buy_token", c) /\ buy_token(c, count)) =>
             IF count \in {1, 5}
             THEN /\ resp'.result = "ok"
                  /\ users' = [users EXCEPT
                                 ![c] = [users[c] EXCEPT !.tokens = @ + count]]
                  /\ OneEntryAppended(c, IF count = 1 THEN 50 ELSE 100)
                  /\ resumes' = resumes
             ELSE /\ resp'.result = "InvalidTokenPack"
                  /\ users' = users
                  /\ purchases' = purchases
                  /\ resumes' = resumes ]_vars

\* The account bought the pack of 1 as its only purchase.
C6_Witness ==
    \E c \in UserIds :
        /\ resp = Answer("buy_token", c, "ok")
        /\ Len(purchases) = 1
        /\ purchases[1].amount = 50
        /\ purchases[1].user_id = c
        /\ users[c].tokens = RegisterTokens + 1
        /\ users[c].plan = "free"

\* C7: upgrade('pro') adds 15 to the tokens, sets the plan to pro and appends
\* one ledger entry of 199; upgrade('ultimate') sets the tokens to 9999 and
\* the plan to ultimate and appends one entry of 499; any other value is
\* answered InvalidPlan and leaves tokens, plan and ledger as they were;
\* all this from every starting plan.
C7_Upgrade ==
    [][ \A c \in UserIds, plan \in UpgradeInputs :
          (Answered("upgrade", c) /\ upgrade(c, plan)) =>
             IF plan = "pro"
             THEN /\ resp'.result = "ok"
                  /\ users' = [users EXCEPT
                                 ![c] = [users[c] EXCEPT !.tokens = @ + 15,
                                                         !.plan = "pro"]]
                  /\ OneEntryAppended(c, 199)
             ELSE IF plan = "ultimate"
             THEN /\ resp'.result = "ok"
                  /\ users' = [users EXCEPT
                                 ![c] = [users[c] EXCEPT !.tokens = 9999,
                                                         !.plan = "ultimate"]]
                  /\ OneEntryAppended(c, 499)
             ELSE /\ resp'.result = "InvalidPlan"
                  /\ users' = users
                  /\ purchases' = purchases ]_vars

\* An ultimate account took the Pro Pack: it is on pro with 9999 + 15 tokens.
C7_Witness ==
    \E c \in UserIds :
        /\ resp = Answer("upgrade", c, "ok")
        /\ Len(purchases) = 2
        /\ purchases[1].amount = 499
        /\ purchases[2].amount = 199
        /\ users[c].plan = "pro"
        /\ users[c].tokens = 10014

\* The ids of the stored rows.
Ids(rows) == {r.id : r \in rows}

\* C8: delete_resume on a Resume of another account is answered Unauthorized
\* and leaves every row as it was; a row goes away only by delete_resume of
\* its owner, and then no other row goes with it.
C8_DeleteOnlyByOwner ==
    [][ /\ \A c \in UserIds, resume_id \in ResumeIds :
              (/\ Answered("delete_resume", c)
               /\ \E r \in resumes : r.id = resume_id /\ r.user_id # c
               /\ delete_resume(c, resume_id))
                  => /\ resp'.result = "Unauthorized"
                     /\ resumes' = resumes
        /\ \A r \in resumes :
              r.id \notin Ids(resumes') =>
                  /\ Answered("delete_resume", r.user_id)
                  /\ resp'.result = "ok"
                  /\ resumes' = resumes \ {r} ]_vars

\* The second account tried to delete the resume of the first, which is
\* still there next to its own.
C8_Witness ==
    /\ resp = Answer("delete_resume", 2, "Unauthorized")
    /\ \E r \in resumes : r.user_id = 1
    /\ \E r \in resumes : r.user_id = 2

\* An edit or a delete changes no account; a POST edit keeps the ids of the
\* rows; a delete adds no row.
EditMutatesDeleteDestroys ==
    /\ resp'.op \in {"edit_resume", "delete_resume"} => users' = users
    /\ (resp'.op = "edit_resume" /\ resp'.result = "updated")
          => Ids(resumes') = Ids(resumes)
    /\ resp'.op = "delete_resume" => resumes' \subseteq resumes

\* The step is a generate of user c that went through and took a token,
\* unless the plan is ultimate.
PaidGenerate(c) ==
    /\ Answered("generate", c)
    /\ resp'.result = "ok"
    /\ users[c].plan # "ultimate" =>
          /\ AfterReset(c).tokens > 0
          /\ users'[c].tokens = AfterReset(c).tokens - 1

\* C9 as claimed: only generate creates rows, a POST edit only mutates one
\* and a delete only destroys one, so every row that comes into existence
\* for an account that is not ultimate cost one token.
C9_RowsOnlyFromGenerate ==
    [][ /\ EditMutatesDeleteDestroys
        /\ \A r \in NewRows : /\ NewRows = {r}
                               /\ PaidGenerate(r.user_id) ]_vars

\* C9, amended: a row is created by a generate that went through, which
\* costs one token unless the plan is ultimate, or by edit_resume with
\* duplicate=1, which copies a row of the caller under a new id and costs
\* nothing; a POST edit only mutates a row and a delete only destroys one.
C9_RowsFromGenerateOrDuplicate ==
    [][ /\ EditMutatesDeleteDestroys
        /\ \A r \in NewRows :
              /\ NewRows = {r}
              /\ resumes \subseteq resumes'
              /\ \/ PaidGenerate(r.user_id)
                 \/ /\ Answered("edit_resume", r.user_id)
                    /\ resp'.result = "duplicated"
                    /\ \E q \in resumes : r = [q EXCEPT !.id = r.id]
                    /\ users' = users ]_vars

\* A free account generated one resume and duplicated it: two rows for one
\* token.
C9_Witness ==
    \E c \in UserIds :
        /\ resp = Answer("edit_resume", c, "duplicated")
        /\ users[c].plan = "free"
        /\ users[c].tokens = RegisterTokens - 1
        /\ \E r, q \in resumes : /\ resumes = {r, q}
                                 /\ r.id # q.id
                                 /\ r.user_id = c
                                 /\ q = [r EXCEPT !.id = q.id]
        /\ purchases = <<>>
        /\ now < TicksPerDay

\* C11: every stored Resume whose template is not a free one belongs to an
\* account on the pro or the ultimate plan: no sequence of generate,
\* edit_resume (duplicate included), buy_token and upgrade leaves a free
\* account with a Resume in a premium template.
C11_PremiumOnlyOnPaidPlans ==
    \A r \in resumes :
        r.template \notin FREE_TEMPLATES
            => users[r.user_id].plan \in {"pro", "ultimate"}

=============================================================================
